---- MODULE Spec2Model ----
(***************************************************************************)
(* Model of the competitor-monitor scripts: the approval handler           *)
(* (approval_handler.py), the error ledger (error_handler.py), the report  *)
(* store (file_organizer.py, historical_retriever.py), the report          *)
(* generator (report_generator.py) and the workflow that ties them         *)
(* together (integration.py).                                              *)
(*                                                                         *)
(* Time: `now' counts seconds for the approval timestamps; `today' is the  *)
(* calendar day.  A datetime is the integer day * DayTicks + time of day,  *)
(* so that datetime comparison is integer comparison.                      *)
(***************************************************************************)
EXTENDS Integers, Sequences, FiniteSets, TLC

\* ------------------------------------------------------------- bounds
MaxRequests == 2
MaxTicks == 2
MaxDay == 2
MaxEntities == 2
MaxRuns == 2
MaxFiles == 3
MaxErrors == 3
\* Times of day told apart within one calendar day.
DayTicks == 2

\* --------------------------------------------------- program constants
DefaultTimeout == 300
\* The clock advances by a little more than half a timeout at a time.
TickStep == DefaultTimeout \div 2 + 1
Threshold == 80

None == 0 - 1

VARIABLES
  ah,        \* the ApprovalHandler: request objects and its three lists
  now,       \* clock of the approval timestamps, in seconds
  lastOp,    \* the last ApprovalHandler or ErrorHandler call: its name,
             \* argument and result
  today,     \* the calendar day
  config,    \* what competitors.json holds
  pc,        \* position of run_workflow
  idx,       \* index of the entity being processed
  cur,       \* the entity in flight: its approval request, awaiting the fetch
  results,   \* run_workflow's results list
  errors,    \* run_workflow's errors list (handed to the report generator)
  ledger,    \* ErrorHandler.errors
  ledgerBase,\* length of the ledger when the run started
  gateLog,   \* per entity processed: its approval status when process_competitor
             \* checked it, whether the fetch was invoked, what came back
  report,    \* the string run_workflow returns (a sequence of lines)
  store,     \* the reports directory: file name -> content
  runs,      \* number of runs started
  query,     \* the last find_latest_report call: its argument and result
  wrote,     \* how the write of the run's report went: none, ok or failed
  diff,      \* the last calculate_similarity call: the cosine similarity
             \* and the dictionary returned
  summary    \* logs/error_summary.json: what save_error_summary wrote

vars == <<ah, now, lastOp, today, config, pc, idx, cur, results, errors,
          ledger, ledgerBase, gateLog, report, store, runs, query, wrote,
          diff,
                 summary>>

approvalVars == <<ah, now, lastOp>>
runVars == <<today, config, pc, idx, cur, results, errors, ledger,
             ledgerBase, gateLog, report, runs, wrote, diff,
                 summary>>
storeVars == <<store, query>>

\* ------------------------------------------------------------ helpers
RECURSIVE RemoveFirst(_, _)
\* list.remove(x): drops the first occurrence of x.
RemoveFirst(s, x) ==
  IF s = <<>> THEN <<>>
  ELSE IF Head(s) = x THEN Tail(s)
  ELSE <<Head(s)>> \o RemoveFirst(Tail(s), x)

InList(s, x) == \E i \in 1..Len(s) : s[i] = x

\* =========================================================== approvals
ActionTypes == {"terminal", "file", "url"}
Approvers == {"user", "test"}

\* ApprovalRequest.__init__
ApprovalRequest(action_type, t) ==
  [action_type |-> action_type,
   timeout_seconds |-> DefaultTimeout,
   status |-> "pending",
   requested_at |-> t,
   approved_at |-> None,
   rejected_at |-> None,
   approver |-> "none"]

\* ApprovalRequest.approve: the request after the call and the result.
approve(req, approver, t) ==
  IF req.status # "pending" THEN [ok |-> FALSE, req |-> req]
  ELSE [ok |-> TRUE,
        req |-> [req EXCEPT !.status = "approved",
                            !.approved_at = t,
                            !.approver = approver]]

\* ApprovalRequest.reject
reject(req, approver, t) ==
  IF req.status # "pending" THEN [ok |-> FALSE, req |-> req]
  ELSE [ok |-> TRUE,
        req |-> [req EXCEPT !.status = "rejected",
                            !.rejected_at = t,
                            !.approver = approver]]

\* ApprovalRequest.is_expired
is_expired(req, t) ==
  IF req.status # "pending" THEN FALSE
  ELSE (t - req.requested_at) > req.timeout_seconds

\* ApprovalHandler.__init__
NewHandler ==
  [reqs |-> <<>>, pending |-> <<>>, approved |-> <<>>, rejected |-> <<>>]

\* request_terminal_approval / request_file_approval / request_url_approval:
\* a new request object, appended to pending_requests.  A request is named by
\* its position in reqs (object identity).
request_approval(h, action_type, t) ==
  [h EXCEPT !.reqs = Append(@, ApprovalRequest(action_type, t)),
            !.pending = Append(@, Len(h.reqs) + 1)]

\* ApprovalHandler.approve_request
approve_request_skip_guard(h, r, approver, t) ==
  [h |-> [h EXCEPT !.reqs[r] = [@ EXCEPT !.status = "approved",
                                         !.approved_at = t,
                                         !.approver = approver],
                   !.pending = RemoveFirst(@, r),
                   !.approved = Append(@, r)],
   ret |-> TRUE]

approve_request(h, r, approver, t) ==
  IF ~InList(h.pending, r) THEN [h |-> h, ret |-> FALSE]
  ELSE LET a == approve(h.reqs[r], approver, t) IN
       IF a.ok
       THEN [h |-> [h EXCEPT !.reqs[r] = a.req,
                             !.pending = RemoveFirst(@, r),
                             !.approved = Append(@, r)],
             ret |-> TRUE]
       ELSE [h |-> h, ret |-> FALSE]

\* A reject_request that leaves the request in pending_requests.
reject_request_keep_pending(h, r, approver, t) ==
  IF ~InList(h.pending, r) THEN [h |-> h, ret |-> FALSE]
  ELSE LET a == reject(h.reqs[r], approver, t) IN
       IF a.ok
       THEN [h |-> [h EXCEPT !.reqs[r] = a.req,
                             !.rejected = Append(@, r)],
             ret |-> TRUE]
       ELSE [h |-> h, ret |-> FALSE]

\* ApprovalHandler.reject_request
reject_request(h, r, approver, t) ==
  IF ~InList(h.pending, r) THEN [h |-> h, ret |-> FALSE]
  ELSE LET a == reject(h.reqs[r], approver, t) IN
       IF a.ok
       THEN [h |-> [h EXCEPT !.reqs[r] = a.req,
                             !.pending = RemoveFirst(@, r),
                             !.rejected = Append(@, r)],
             ret |-> TRUE]
       ELSE [h |-> h, ret |-> FALSE]

RECURSIVE sweep(_, _, _)
\* get_pending_request's loop over pending_requests: each expired request
\* gets status EXPIRED and is appended to rejected_requests.
sweep(h, todo, t) ==
  IF todo = <<>> THEN h
  ELSE LET r == Head(todo) IN
       IF is_expired(h.reqs[r], t)
       THEN sweep([h EXCEPT !.reqs[r].status = "expired",
                            !.rejected = Append(@, r)], Tail(todo), t)
       ELSE sweep(h, Tail(todo), t)

\* A get_pending_request that returns the head of the list as it is.
get_pending_request_no_sweep(h, t) ==
  IF h.pending = <<>> THEN [h |-> h, ret |-> 0]
  ELSE [h |-> h, ret |-> h.pending[1]]

\* A get_pending_request that returns the newest request left.
get_pending_request_newest(h, t) ==
  IF h.pending = <<>> THEN [h |-> h, ret |-> 0]
  ELSE LET h1 == sweep(h, h.pending, t)
           keep(r) == h1.reqs[r].status = "pending"
           h2 == [h1 EXCEPT !.pending = SelectSeq(h1.pending, keep)]
       IN IF h2.pending = <<>> THEN [h |-> h2, ret |-> 0]
          ELSE [h |-> h2, ret |-> h2.pending[Len(h2.pending)]]

\* ApprovalHandler.get_pending_request; 0 stands for None.
get_pending_request(h, t) ==
  IF h.pending = <<>> THEN [h |-> h, ret |-> 0]
  ELSE LET h1 == sweep(h, h.pending, t)
           keep(r) == h1.reqs[r].status = "pending"
           h2 == [h1 EXCEPT !.pending = SelectSeq(h1.pending, keep)]
       IN IF h2.pending = <<>> THEN [h |-> h2, ret |-> 0]
          ELSE [h |-> h2, ret |-> h2.pending[1]]

\* ApprovalHandler.get_approval_status: the status field of a request that is
\* in one of the three lists, EXPIRED for any other.
get_approval_status(h, r) ==
  IF InList(h.pending, r) THEN h.reqs[r].status
  ELSE IF InList(h.approved, r) THEN h.reqs[r].status
  ELSE IF InList(h.rejected, r) THEN h.reqs[r].status
  ELSE "expired"

\* ApprovalHandler.get_approved_count / get_rejected_count
get_approved_count(h) == Len(h.approved)
get_rejected_count(h) == Len(h.rejected)

\* ------------------------------------------------- approval actions
RequestApproval ==
  /\ Len(ah.reqs) < MaxRequests
  /\ \E k \in ActionTypes :
       /\ ah' = request_approval(ah, k, now)
       /\ lastOp' = [op |-> "request", req |-> Len(ah.reqs) + 1, ret |-> 0,
                  status |-> "none"]
  /\ UNCHANGED <<now, runVars, storeVars>>

GetPending ==
  LET g == get_pending_request(ah, now) IN
  /\ ah' = g.h
  /\ lastOp' = [op |-> "get_pending", req |-> 0, ret |-> g.ret,
               status |-> "none"]
  /\ UNCHANGED <<now, runVars, storeVars>>

Approve ==
  \E r \in 1..Len(ah.reqs), who \in Approvers :
    LET a == approve_request(ah, r, who, now) IN
    /\ ah' = a.h
    /\ lastOp' = [op |-> "approve", req |-> r, ret |-> IF a.ret THEN 1 ELSE 0,
                  status |-> "none"]
    /\ UNCHANGED <<now, runVars, storeVars>>

Reject ==
  \E r \in 1..Len(ah.reqs), who \in Approvers :
    LET a == reject_request(ah, r, who, now) IN
    /\ ah' = a.h
    /\ lastOp' = [op |-> "reject", req |-> r, ret |-> IF a.ret THEN 1 ELSE 0,
                  status |-> "none"]
    /\ UNCHANGED <<now, runVars, storeVars>>

GetStatus ==
  \E r \in 1..Len(ah.reqs) :
    /\ lastOp' = [op |-> "get_status", req |-> r, ret |-> 0,
                  status |-> get_approval_status(ah, r)]
    /\ UNCHANGED <<ah, now, runVars, storeVars>>

\* Time passes between calls (no call is made in this step).
Tick ==
  /\ now + TickStep <= MaxTicks * TickStep
  /\ now' = now + TickStep
  /\ lastOp' = [op |-> "none", req |-> 0, ret |-> 0, status |-> "none"]
  /\ UNCHANGED <<ah, runVars, storeVars>>

\* =============================================================== store
\* A file of the reports directory is named <stamp><suffix>: the stamp stands
\* for the ten characters dddd-dd-dd, and the stamps 1..MaxDay+1 are calendar
\* dates (stamp 0 is a digit string that is no date, such as 0000-00-00).
\* dir is the subdirectory of the reports directory the file lies in, a
\* string as the sequence of its characters; <<>> is the reports directory
\* itself.
ReportSuffix == "_Intelligence.md"
FileName(stamp, suffix) == [dir |-> <<>>, stamp |-> stamp, suffix |-> suffix]
NoFile == FileName(None, "none")

\* datetime.strftime('%Y-%m-%d'): the day of a datetime, its time dropped.
strftime(dt) == dt \div DayTicks

\* datetime.strptime(s, '%Y-%m-%d'): midnight of that day; ValueError (None)
\* when the digits are no calendar date.
strptime(stamp) == IF stamp >= 1 THEN stamp * DayTicks ELSE None

\* HistoricalRetriever.REPORT_PATTERN
REPORT_PATTERN(name) == name.suffix = ReportSuffix

\* FileOrganizer.generate_filename
generate_filename(dt) == FileName(strftime(dt), ReportSuffix)

\* str.replace(' ', '_')
replace(name) == [i \in DOMAIN name |-> IF name[i] = " " THEN "_" ELSE name[i]]

\* FileOrganizer.generate_filepath: under the competitor's subdirectory when
\* a competitor name is given (None and '' are <<>>).
generate_filepath(dt, competitor_name) ==
  IF competitor_name # <<>>
  THEN [generate_filename(dt) EXCEPT !.dir = replace(competitor_name)]
  ELSE generate_filename(dt)

\* reports_dir.glob('*.md'): the files of the directory itself, not those of
\* its subdirectories.
glob(st) == {f \in DOMAIN st.files : f.dir = <<>>}

\* The permutations of a finite set: the orders glob() may list a directory in.
Orders(S) ==
  {o \in [1..Cardinality(S) -> S] : \A i, j \in 1..Cardinality(S) :
                                       o[i] = o[j] => i = j}

RECURSIVE scan_le(_, _, _, _)
scan_le(todo, before_date, latest_date, latest_report) ==
  IF todo = <<>> THEN latest_report
  ELSE LET f == Head(todo)
           report_date == strptime(f.stamp)
       IN IF /\ REPORT_PATTERN(f)
             /\ report_date # None
             /\ report_date <= before_date
             /\ (latest_date = None \/ report_date > latest_date)
          THEN scan_le(Tail(todo), before_date, report_date, f)
          ELSE scan_le(Tail(todo), before_date, latest_date, latest_report)

RECURSIVE scan(_, _, _, _)
\* The loop of find_latest_report over reports_dir.glob('*.md').
scan(todo, before_date, latest_date, latest_report) ==
  IF todo = <<>> THEN latest_report
  ELSE LET f == Head(todo)
           report_date == strptime(f.stamp)
       IN IF /\ REPORT_PATTERN(f)
             /\ report_date # None
             /\ report_date < before_date
             /\ (latest_date = None \/ report_date > latest_date)
          THEN scan(Tail(todo), before_date, report_date, f)
          ELSE scan(Tail(todo), before_date, latest_date, latest_report)

\* HistoricalRetriever.find_latest_report(before_date), the directory listed
\* in the order `order'.
find_latest_report(st, before_date, order) ==
  IF ~st.exists THEN NoFile
  ELSE scan(order, before_date, None, NoFile)

\* HistoricalRetriever.get_report_date
get_report_date(name) ==
  IF REPORT_PATTERN(name) THEN strptime(name.stamp) ELSE None

\* ================================================================ text
\* A text is a sequence of lines.  A line is its fixed text s with the values
\* interpolated into it: a number n and a string e.
Line(s, n, e) == [s |-> s, n |-> n, e |-> e]
T(s) == Line(s, 0, "")
Blank == T("")

\* line.startswith('#'): the fixed texts that begin with '#'.
HashTexts ==
  {"# Intelligence Report: ", "## Executive Summary", "## Competitor: ",
   "### Overview", "### Findings", "### Historical Comparison",
   "### Detailed Changes", "## Error Summary", "## Recommendations", "## Error"}
startswith_hash(l) == l.s \in HashTexts
\* line.strip() == '---'
is_rule(l) == l.s = "---"
\* not line.strip()
is_blank(l) == l.s = "" /\ l.e = ""

RECURSIVE rstrip_lines(_)
\* str.strip() on the joined lines: blank lines at the end go (those at the
\* start were never collected).
rstrip_lines(ls) ==
  IF ls = <<>> THEN <<>>
  ELSE IF is_blank(ls[Len(ls)]) THEN rstrip_lines(SubSeq(ls, 1, Len(ls) - 1))
  ELSE ls

RECURSIVE baseline_scan(_, _, _)
\* The loop of get_baseline_text over content.split('\n').
baseline_scan(lines, content_lines, in_content) ==
  IF lines = <<>> THEN content_lines
  ELSE LET line == Head(lines) IN
       IF is_rule(line)
       THEN baseline_scan(Tail(lines), content_lines, in_content)
       ELSE IF startswith_hash(line)
       THEN (IF in_content THEN content_lines
             ELSE baseline_scan(Tail(lines), content_lines, in_content))
       ELSE IF ~in_content /\ is_blank(line)
       THEN baseline_scan(Tail(lines), content_lines, in_content)
       ELSE baseline_scan(Tail(lines), Append(content_lines, line), TRUE)

\* The value None of an Optional[str].
NoText == <<T("<None>")>>

\* HistoricalRetriever.get_report_content: None when the file cannot be read.
get_report_content(st, name) ==
  IF st.exists /\ name \in DOMAIN st.files THEN st.files[name] ELSE NoText

\* HistoricalRetriever.get_baseline_text
get_baseline_text(st, name) ==
  LET content == get_report_content(st, name) IN
  IF content # NoText /\ content # <<>>
  THEN rstrip_lines(baseline_scan(content, <<>>, FALSE))
  ELSE NoText

\* `if historical_text:` -- neither None nor the empty string.
truthy(text) == text # NoText /\ text # <<>>

\* ============================================================== ledger
\* A log_error that puts the record at the front.
log_error_prepend(errs, error_type, message, competitor_name) ==
  <<[error_type |-> error_type, message |-> message,
     competitor_name |-> competitor_name]>> \o errs

\* ErrorHandler.log_error
log_error(errs, error_type, message, competitor_name) ==
  Append(errs, [error_type |-> error_type, message |-> message,
                competitor_name |-> competitor_name])

\* log_configuration_error / log_network_error / log_script_error /
\* log_report_error ("N/A" stands for competitor_name None)
log_configuration_error(errs, message) ==
  log_error(errs, "configuration", message, "N/A")
log_network_error_silent(errs, message, competitor_name) == errs
log_network_error(errs, message, competitor_name) ==
  log_error(errs, "network", message, competitor_name)
log_script_error(errs, message, competitor_name) ==
  log_error(errs, "script", message, competitor_name)
log_report_error_silent(errs, message) == errs
log_report_error(errs, message) ==
  log_error(errs, "report", message, "N/A")

\* ErrorHandler.clear_errors
clear_errors(errs) == <<>>

\* ErrorHandler.get_error_summary: the total and the counts by type and by
\* competitor, each a dictionary over the keys that occur.
get_error_summary(errs) ==
  LET types == {errs[i].error_type : i \in 1..Len(errs)}
      competitors == {errs[i].competitor_name : i \in 1..Len(errs)}
  IN [total_errors |-> Len(errs),
      errors_by_type |->
        [t \in types |->
           Cardinality({i \in 1..Len(errs) : errs[i].error_type = t})],
      errors_by_competitor |->
        [c \in competitors |->
           Cardinality({i \in 1..Len(errs) : errs[i].competitor_name = c})]]

\* No error_summary.json written.
NoSummary ==
  [total_errors |-> None,
   errors_by_type |-> [t \in {} |-> 0],
   errors_by_competitor |-> [c \in {} |-> 0]]

\* ErrorHandler.get_errors_by_type / get_errors_by_competitor
get_errors_by_type(errs, error_type) ==
  SelectSeq(errs, LAMBDA e : e.error_type = error_type)
get_errors_by_competitor(errs, competitor_name) ==
  SelectSeq(errs, LAMBDA e : e.competitor_name = competitor_name)

\* ============================================================== differ
\* Cosine similarities are fixed-point, in hundredths: -100..100.  The
\* embedding model is external: equal texts have equal embeddings (similarity
\* 100), two different texts any similarity.
Sims == {79, 80}
cosine_similarity(text1, text2) == IF text1 = text2 THEN {100} ELSE Sims

\* A calculate_similarity that decides on the percentage.
calculate_similarity_on_percentage(similarity) ==
  LET similarity_percentage == ((similarity + 100) * 100) \div 2
      is_strategic_shift == similarity_percentage < Threshold * 100
  IN [similarity_percentage |-> similarity_percentage,
      cosine_similarity |-> similarity,
      shift_classification |->
        IF is_strategic_shift THEN "Strategic_Shift" ELSE "minor_update",
      is_strategic_shift |-> is_strategic_shift]

\* SemanticDiffer.calculate_similarity, given the cosine similarity; the
\* percentage is in hundredths of a percent.
calculate_similarity(similarity) ==
  LET is_strategic_shift == similarity < Threshold IN
  [similarity_percentage |-> ((similarity + 100) * 100) \div 2,
   cosine_similarity |-> similarity,
   shift_classification |->
     IF is_strategic_shift THEN "Strategic_Shift" ELSE "minor_update",
   is_strategic_shift |-> is_strategic_shift]

\* No calculate_similarity call made yet.
NoDiff == [similarity |-> 0, called |-> FALSE, result |-> calculate_similarity(0)]

\* ============================================================== report
\* A result dictionary; a key that is not set holds Absent / AbsentLine / None.
\* baseline_date 0 stands for 'N/A'.
Absent == "<absent>"
AbsentLine == T("<absent>")
NA == 0

NewResult(name, url, date) ==
  [competitor_name |-> name,
   url |-> url,
   analysis_date |-> date,
   is_strategic_shift |-> FALSE,
   findings |-> T("Processing..."),
   similarity_percentage |-> None,
   shift_classification |-> Absent,
   baseline_date |-> None,
   detailed_changes |-> AbsentLine]

\* dict.get(key, default)
get(v, absent, default) == IF v = absent THEN default ELSE v

Highlight ==
  <<Blank,
    T("> **STRATEGIC SHIFT DETECTED**"),
    T("> "),
    T("> This competitor has made a significant change in their messaging that may indicate "),
    T("> a change in business strategy, pricing model, or target demographic. "),
    T("> Further analysis is recommended.")>>

\* ReportGenerator._generate_competitor_section
generate_competitor_section(result) ==
  LET similarity_percentage == get(result.similarity_percentage, None, 0)
      classification == get(result.shift_classification, Absent, "Unknown")
      baseline_date == get(result.baseline_date, None, NA)
      detailed_changes == get(result.detailed_changes, AbsentLine,
                              T("No detailed changes available."))
  IN <<Line("## Competitor: ", 0, result.competitor_name),
       Blank,
       T("### Overview"),
       Line("- **URL**: ", 0, result.url),
       Line("- **Analysis Date**: ", result.analysis_date, ""),
       Line("- **Similarity Score**: ", similarity_percentage, ""),
       Line("- **Classification**: ", 0, classification),
       Blank,
       T("### Findings"),
       Blank,
       result.findings,
       Blank,
       T("### Historical Comparison"),
       Blank,
       Line("The current content was compared against the baseline from ",
            baseline_date, ""),
       Line("The cosine similarity between embeddings is ",
            similarity_percentage, ""),
       Line("indicating a ", 0, classification),
       Blank,
       T("### Detailed Changes"),
       Blank,
       detailed_changes>>
     \o (IF result.is_strategic_shift THEN Highlight ELSE <<>>)
     \o <<Blank>>

RECURSIVE competitor_sections(_)
competitor_sections(rs) ==
  IF rs = <<>> THEN <<>>
  ELSE generate_competitor_section(Head(rs)) \o competitor_sections(Tail(rs))

\* One line of the error section; the error message is not kept in the line.
ErrorLine(error) ==
  Line("- **{competitor_name}**: {error_message}", 0, error.competitor_name)

RECURSIVE error_lines(_)
error_lines(errs) ==
  IF errs = <<>> THEN <<>>
  ELSE <<ErrorLine(Head(errs))>> \o error_lines(Tail(errs))

\* ReportGenerator._generate_error_section
generate_error_section(errs) ==
  IF errs = <<>>
  THEN <<T("## Error Summary"), Blank,
         T("All competitors were processed successfully with no errors.")>>
  ELSE <<T("## Error Summary"), Blank,
         T("The following errors occurred during processing:"), Blank>>
       \o error_lines(errs)

RECURSIVE shift_lines(_)
shift_lines(rs) ==
  IF rs = <<>> THEN <<>>
  ELSE <<Line("   - {name}: No details available", 0, Head(rs).competitor_name)>>
       \o shift_lines(Tail(rs))

\* A recommendations section that never lists a competitor.
generate_recommendations_section_none(strategic_shifts) ==
  <<T("## Recommendations"), Blank,
    T("Based on the analysis, consider the following actions:"), Blank,
    T("1. No immediate strategic shifts detected. Continue regular monitoring."),
    Blank,
    T("2. **Monitor Crunchbase**: Check Crunchbase profiles for recent funding rounds or team changes"),
    T("3. **Track Social Media**: Monitor Twitter/X for brand sentiment and customer feedback")>>

\* ReportGenerator._generate_recommendations_section
generate_recommendations_section(strategic_shifts) ==
  <<T("## Recommendations"), Blank,
    T("Based on the analysis, consider the following actions:"), Blank>>
  \o (IF strategic_shifts # <<>>
      THEN <<T("1. **Review Strategic Shifts**: The following competitors have detected strategic shifts that may require immediate attention:"),
             Blank>> \o shift_lines(strategic_shifts)
      ELSE <<T("1. No immediate strategic shifts detected. Continue regular monitoring."),
             Blank>>)
  \o <<T("2. **Monitor Crunchbase**: Check Crunchbase profiles for recent funding rounds or team changes"),
       T("3. **Track Social Media**: Monitor Twitter/X for brand sentiment and customer feedback")>>

\* ReportGenerator.generate_report; current_date is its datetime.now() date.
generate_report(competitor_results, errs, current_date) ==
  LET strategic_shifts ==
        SelectSeq(competitor_results, LAMBDA r : r.is_strategic_shift)
  IN <<Line("# Intelligence Report: ", current_date, ""),
       Blank,
       T("## Executive Summary"),
       Blank,
       Line("This report contains competitive intelligence gathered on {} competitors. ",
            Len(competitor_results), ""),
       T("The analysis includes web content extraction, semantic diffing against historical baselines, "),
       T("and identification of strategic shifts."),
       Blank,
       T("---"),
       Blank>>
     \o competitor_sections(competitor_results)
     \o <<Blank, Blank>>
     \o generate_error_section(errs)
     \o <<Blank, Blank>>
     \o generate_recommendations_section(strategic_shifts)
     \o <<Blank, Blank>>

\* CompetitorMonitor._generate_error_report
generate_error_report(error_message, current_date) ==
  <<Line("# Intelligence Report: ", current_date, ""),
    Blank,
    T("## Error"),
    Blank,
    T(error_message),
    Blank,
    T("## Error Summary"),
    Blank,
    T("All competitors failed to process due to configuration errors.")>>

\* ============================================================ workflow
\* competitors.json.  An entry of the competitors list is a dictionary with a
\* name and a url, or something else (dict |-> FALSE: a string, a number).
Entity(name, url) == [dict |-> TRUE, name |-> name, url |-> url]
Malformed == [dict |-> FALSE, name |-> "", url |-> ""]
Names == <<"e1", "e2", "e3", "e4">>
Urls == <<"u1", "u2", "u3", "u4">>

\* The lists of up to MaxEntities entries: the i-th is the i-th entity or is
\* malformed.
EntityLists ==
  UNION {{c \in [1..n -> {Malformed} \cup {Entity(Names[i], Urls[i]) : i \in 1..n}] :
             \A i \in 1..n : c[i].dict => c[i].name = Names[i]} :
         n \in 1..MaxEntities}

\* file: absent       no competitors.json
\*       invalid_json json.load raises JSONDecodeError
\*       empty_object {} (or any JSON value that is falsy)
\*       no_list      an object without a non-empty 'competitors' list
\*       not_object   a JSON value that is truthy and no object, such as [1]
\*       ok           an object with a non-empty 'competitors' list
Configs ==
  {[file |-> f, competitors |-> <<>>] :
     f \in {"absent", "invalid_json", "empty_object", "no_list", "not_object"}}
  \cup {[file |-> "ok", competitors |-> c] : c \in EntityLists}

\* What the page-text extraction can return: a text, or None.
Texts == {<<T("A")>>, <<T("B")>>}

NoCur == [req |-> 0, result |-> NewResult("", "", 0)]
Idle == pc \in {"idle", "done", "crashed"}

\* datetime.now(): the day is `today', the time of day is any.
Nows == {today * DayTicks + tod : tod \in 0..(DayTicks - 1)}

\* CompetitorMonitor.load_competitors_config: the ledger after it.
load_competitors_config(errs, cfg) ==
  IF cfg.file = "absent"
  THEN log_configuration_error(errs, "competitors.json not found")
  ELSE IF cfg.file = "invalid_json"
  THEN log_configuration_error(errs, "Invalid JSON in competitors.json")
  ELSE errs

\* run_workflow up to the entity loop.
StartRun ==
  /\ Idle
  /\ runs < MaxRuns
  /\ runs' = runs + 1
  /\ ledger' = load_competitors_config(ledger, config)
  /\ ledgerBase' = Len(ledger)
  /\ results' = <<>>
  /\ errors' = <<>>
  /\ cur' = NoCur
  /\ idx' = 1
  /\ IF config.file \in {"absent", "invalid_json", "empty_object"}
     THEN /\ pc' = "done"
          /\ report' = generate_error_report("Failed to load configuration", today)
     ELSE IF config.file = "not_object"
     THEN \* config.get raises AttributeError, which nothing catches
          /\ pc' = "crashed"
          /\ report' = <<>>
     ELSE IF config.competitors = <<>>
     THEN /\ pc' = "done"
          /\ report' = generate_error_report("No competitors configured", today)
     ELSE /\ pc' = "loop"
          /\ report' = <<>>
  /\ wrote' = "none"
  /\ UNCHANGED <<ah, now, lastOp, today, config, gateLog, store, query,
                 diff,
                 summary>>

\* The tail of the loop body of run_workflow: a result whose findings start
\* with 'Error:' adds an entry to errors; the result is appended to results.
collect_errors(errs, result) ==
  IF result.findings.s = "Error: "
  THEN Append(errs, [competitor_name |-> result.competitor_name,
                     error_message |-> result.findings])
  ELSE errs

\* process_competitor from the approval request to the check of its status:
\* the handler after it, the request, and whether the fetch goes ahead.
url_gate_fetch_first(h, t) ==
  LET h1 == request_approval(h, "url", t) IN
  [h |-> h1, req |-> Len(h1.reqs), fetch |-> TRUE]

url_gate(h, t) ==
  LET h1 == request_approval(h, "url", t)
      r == Len(h1.reqs)
      a == approve_request(h1, r, "test", t)
  IN [h |-> a.h, req |-> r, fetch |-> a.h.reqs[r].status = "approved"]

\* process_competitor up to the await of browser.extract_text_from_url.
BeginEntity ==
  /\ pc = "loop"
  /\ idx <= Len(config.competitors)
  /\ LET competitor == config.competitors[idx] IN
     IF ~competitor.dict
     THEN \* competitor.get raises AttributeError before the try block
          /\ pc' = "crashed"
          /\ UNCHANGED <<ah, cur, results, idx, gateLog>>
     ELSE LET g == url_gate(ah, now)
              result == NewResult(competitor.name, competitor.url, today)
          IN /\ ah' = g.h
             /\ gateLog' = Append(gateLog,
                  [run |-> runs, idx |-> idx, name |-> competitor.name,
                   req |-> g.req, status |-> g.h.reqs[g.req].status,
                   fetched |-> g.fetch, text |-> NoText,
                   baseline |-> NoFile, baseline_text |-> NoText,
                   compared |-> FALSE])
             /\ IF g.fetch
                THEN /\ pc' = "fetching"
                     /\ cur' = [req |-> g.req, result |-> result]
                     /\ UNCHANGED <<results, idx>>
                ELSE /\ pc' = "loop"
                     /\ results' = Append(results,
                          [result EXCEPT !.findings = T("URL browsing not approved")])
                     /\ idx' = idx + 1
                     /\ UNCHANGED cur
  /\ UNCHANGED <<now, lastOp, today, config, errors, ledger, ledgerBase,
                 report, store, runs, query,
                 wrote, diff,
                 summary>>

\* process_competitor after the fetch returned current_text: the baseline
\* lookup.  historical_text is None without a report, and baseline_date 'N/A'.
baseline_lookup(st, before_date, order) ==
  LET historical_report == find_latest_report(st, before_date, order) IN
  IF historical_report # NoFile
  THEN [report |-> historical_report,
        text |-> get_baseline_text(st, historical_report),
        date |-> strftime(get_report_date(historical_report))]
  ELSE [report |-> NoFile, text |-> NoText, date |-> NA]

\* A result after the diff that takes only the baseline date.
diffed_result_partial(result, diff_result, baseline_date) ==
  [result EXCEPT !.baseline_date = baseline_date]

\* process_competitor: the result after semantic_differ.diff_texts.
diffed_result(result, diff_result, baseline_date) ==
  [result EXCEPT
     !.similarity_percentage = diff_result.similarity_percentage,
     !.shift_classification = diff_result.shift_classification,
     !.is_strategic_shift = diff_result.is_strategic_shift,
     !.baseline_date = baseline_date,
     !.detailed_changes = Line("Similarity: ", diff_result.similarity_percentage, ""),
     !.findings =
        IF diff_result.is_strategic_shift
        THEN Line("Strategic shift detected! Similarity: ",
                  diff_result.similarity_percentage, "")
        ELSE Line("No major changes detected. Similarity: ",
                  diff_result.similarity_percentage, "")]

\* A new-competitor result that carries the strategic-shift flag.
new_competitor_result_flagged(result) ==
  [result EXCEPT
     !.similarity_percentage = 0,
     !.shift_classification = "new_competitor",
     !.is_strategic_shift = TRUE,
     !.baseline_date = NA,
     !.detailed_changes = T("No historical data available"),
     !.findings = T("New competitor - no historical data for comparison")]

\* process_competitor: the result when there is no historical text.
new_competitor_result(result) ==
  [result EXCEPT
     !.similarity_percentage = 0,
     !.shift_classification = "new_competitor",
     !.is_strategic_shift = FALSE,
     !.baseline_date = NA,
     !.detailed_changes = T("No historical data available"),
     !.findings = T("New competitor - no historical data for comparison")]

\* The except branch of process_competitor: the result after it.
error_result(result) == [result EXCEPT !.findings = Line("Error: ", 0, "exc")]

Collected_drop_failed(result) ==
  /\ errors' = collect_errors(errors, result)
  /\ results' = IF result.findings.s = "Failed to extract text" THEN results
                ELSE Append(results, result)
  /\ idx' = idx + 1
  /\ cur' = NoCur
  /\ pc' = "loop"

\* A loop that processes an entity again when its result is a failure.
Collected_retry_failed(result) ==
  /\ errors' = collect_errors(errors, result)
  /\ results' = IF result.findings.s \in {"Failed to extract text", "Error: "}
                THEN results ELSE Append(results, result)
  /\ idx' = IF result.findings.s \in {"Failed to extract text", "Error: "}
            THEN idx ELSE idx + 1
  /\ cur' = NoCur
  /\ pc' = "loop"

\* The entity is done: run_workflow collects its result and moves on.
Collected(result) ==
  /\ errors' = collect_errors(errors, result)
  /\ results' = Append(results, result)
  /\ idx' = idx + 1
  /\ cur' = NoCur
  /\ pc' = "loop"

Fetched(text, before_date, b) ==
  gateLog' = [gateLog EXCEPT ![Len(gateLog)] =
                [@ EXCEPT !.text = text,
                          !.baseline = b.report, !.baseline_text = b.text,
                          !.compared = truthy(b.text)]]

\* process_competitor from the return of browser.extract_text_from_url to its
\* end, and the tail of the loop body of run_workflow.
FetchReturns ==
  /\ pc = "fetching"
  /\ LET name == cur.result.competitor_name IN
     \/ \* the fetch returns None (or an empty text)
        /\ ledger' = log_network_error(ledger, "Failed to extract text from {url}", name)
        /\ Collected([cur.result EXCEPT !.findings = T("Failed to extract text")])
        /\ UNCHANGED gateLog
     \/ \* the fetch raises
        /\ ledger' = log_script_error(ledger, "Error processing {name}: {e}", name)
        /\ Collected(error_result(cur.result))
        /\ UNCHANGED gateLog
     \/ \* the fetch returns a text; lookup and classification go through
        \E text \in Texts, before_date \in Nows,
           order \in Orders(glob(store)) :
          LET b == baseline_lookup(store, before_date, order) IN
          /\ Fetched(text, before_date, b)
          /\ ledger' = ledger
          /\ IF truthy(b.text)
             THEN \E similarity \in cosine_similarity(text, b.text) :
                    Collected(diffed_result(cur.result,
                                            calculate_similarity(similarity),
                                            b.date))
             ELSE Collected(new_competitor_result(cur.result))
     \/ \* the fetch returns a text; the lookup or the differ raises
        \E text \in Texts, before_date \in Nows,
           order \in Orders(glob(store)) :
          LET b == baseline_lookup(store, before_date, order) IN
          /\ Fetched(text, before_date, b)
          /\ ledger' = log_script_error(ledger, "Error processing {name}: {e}", name)
          /\ Collected(error_result(cur.result))
  /\ UNCHANGED <<ah, now, lastOp, today, config, ledgerBase, report, store,
                 runs, query,
                 wrote, diff,
                 summary>>

\* run_workflow after the loop: report_generator.generate_report.
Compile ==
  /\ pc = "loop"
  /\ idx > Len(config.competitors)
  /\ report' = generate_report(results, errors, today)
  /\ pc' = "save"
  /\ UNCHANGED <<ah, now, lastOp, today, config, idx, cur, results, errors,
                 ledger, ledgerBase, gateLog, store, runs, query,
                 wrote, diff,
                 summary>>

\* A write that leaves a file that is already there as it is.
write_file_keep(st, name, content) ==
  [exists |-> TRUE,
   files |-> [f \in DOMAIN st.files \cup {name} |->
                IF f \in DOMAIN st.files THEN st.files[f] ELSE content]]

\* A write that empties the directory first.
write_file_only(st, name, content) ==
  [exists |-> TRUE, files |-> [f \in {name} |-> content]]

\* open(filepath, 'w') and f.write(content): the store after a write.
write_file(st, name, content) ==
  [exists |-> TRUE,
   files |-> [f \in DOMAIN st.files \cup {name} |->
                IF f = name THEN content ELSE st.files[f]]]

\* run_workflow: the report is written under generate_filename(); a failed
\* write is logged and the report is returned all the same.
Save ==
  /\ pc = "save"
  /\ \E dt \in Nows :
       \/ /\ store' = write_file(store, generate_filename(dt), report)
          /\ wrote' = "ok"
          /\ UNCHANGED ledger
       \/ /\ ledger' = log_report_error(ledger, "Failed to save report: {e}")
          /\ wrote' = "failed"
          /\ UNCHANGED store
  /\ pc' = "done"
  /\ UNCHANGED <<ah, now, lastOp, today, config, idx, cur, results, errors,
                 ledgerBase, gateLog, report, runs, query, diff,
                 summary>>

\* The calendar day changes.
Midnight ==
  /\ today < MaxDay
  /\ today' = today + 1
  /\ UNCHANGED <<ah, now, lastOp, config, pc, idx, cur, results, errors,
                 ledger, ledgerBase, gateLog, report, store, runs, query,
                 wrote, diff,
                 summary>>

EmptyStore == [exists |-> TRUE, files |-> <<>>]
NoSave == [ok |-> FALSE, date |-> None, competitor_name |-> <<>>,
           content |-> NoText]
NoQuery == [before |-> None, found |-> NoFile, read |-> NoText,
            saved |-> NoSave]
NoOp == [op |-> "none", req |-> 0, ret |-> 0, status |-> "none"]

\* CompetitorMonitor.__init__: fresh components, the reports directory made.
Init ==
  /\ ah = NewHandler
  /\ now = 0
  /\ lastOp = NoOp
  /\ today = 1
  /\ config \in Configs
  /\ pc = "idle"
  /\ idx = 1
  /\ cur = NoCur
  /\ results = <<>>
  /\ errors = <<>>
  /\ ledger = <<>>
  /\ ledgerBase = 0
  /\ gateLog = <<>>
  /\ report = <<>>
  /\ store = EmptyStore
  /\ runs = 0
  /\ query = NoQuery
  /\ wrote = "none"
  /\ diff = NoDiff
  /\ summary = NoSummary

Next ==
  \/ StartRun
  \/ BeginEntity
  \/ FetchReturns
  \/ Compile
  \/ Save
  \/ Midnight

Spec == Init /\ [][Next]_vars

\* ------------------------------------------- the handler on its own
\* Any sequence of ApprovalHandler calls, with time passing between them.
NoConfig == [file |-> "absent", competitors |-> <<>>]

InitApproval ==
  /\ ah = NewHandler
  /\ now = 0
  /\ lastOp = NoOp
  /\ today = 1
  /\ config = NoConfig
  /\ pc = "idle"
  /\ idx = 1
  /\ cur = NoCur
  /\ results = <<>>
  /\ errors = <<>>
  /\ ledger = <<>>
  /\ ledgerBase = 0
  /\ gateLog = <<>>
  /\ report = <<>>
  /\ store = EmptyStore
  /\ runs = 0
  /\ query = NoQuery
  /\ wrote = "none"
  /\ diff = NoDiff
  /\ summary = NoSummary

NextApproval ==
  \/ RequestApproval
  \/ GetPending
  \/ Approve
  \/ Reject
  \/ GetStatus
  \/ Tick

SpecApproval == InitApproval /\ [][NextApproval]_vars

\* --------------------------------------------- the store on its own
\* find_latest_report over any directory: report files of any stamp, files
\* of other names, or no directory at all.
FileNames ==
  {FileName(k, ReportSuffix) : k \in 0..(MaxDay + 1)}
  \cup {FileName(1, "_notes.md")}

Stores ==
  {[exists |-> FALSE, files |-> <<>>]}
  \cup {[exists |-> TRUE, files |-> [f \in S |-> <<T("A")>>]] :
          S \in {S \in SUBSET FileNames : Cardinality(S) <= MaxFiles}}

DateTimes == 0..((MaxDay + 2) * DayTicks - 1)

InitFind ==
  /\ ah = NewHandler
  /\ now = 0
  /\ lastOp = NoOp
  /\ today = 1
  /\ config = NoConfig
  /\ pc = "idle"
  /\ idx = 1
  /\ cur = NoCur
  /\ results = <<>>
  /\ errors = <<>>
  /\ ledger = <<>>
  /\ ledgerBase = 0
  /\ gateLog = <<>>
  /\ report = <<>>
  /\ store \in Stores
  /\ runs = 0
  /\ query = NoQuery
  /\ wrote = "none"
  /\ diff = NoDiff
  /\ summary = NoSummary

\* The competitor names save_report is called with: none, and one with a
\* space in it.
Scopes == {<<>>, <<"e", " ", "1">>}

\* A call find_latest_report(before_date), and get_report_content of what it
\* returned.
FindLatest ==
  /\ \E before_date \in DateTimes, order \in Orders(glob(store)) :
       LET found == find_latest_report(store, before_date, order) IN
       query' = [query EXCEPT
                   !.before = before_date,
                   !.found = found,
                   !.read = get_report_content(store, found)]
  /\ UNCHANGED <<approvalVars, runVars, store>>

\* FileOrganizer.save_report(content, date, competitor_name): the directory
\* is made when it is missing and the file of that date is written; when
\* that raises, None is returned and the directory is as it was.
SaveReport ==
  /\ \E content \in Texts, date \in DateTimes, competitor_name \in Scopes :
       LET filepath == generate_filepath(date, competitor_name) IN
       /\ date >= DayTicks
       /\ filepath \in DOMAIN store.files
          \/ Cardinality(DOMAIN store.files) < MaxFiles
       /\ \/ /\ store' = write_file(store, filepath, content)
             /\ query' = [NoQuery EXCEPT
                            !.saved = [ok |-> TRUE, date |-> date,
                                       competitor_name |-> competitor_name,
                                       content |-> content]]
          \/ /\ store' = store
             /\ query' = [NoQuery EXCEPT
                            !.saved = [ok |-> FALSE, date |-> date,
                                       competitor_name |-> competitor_name,
                                       content |-> content]]
  /\ UNCHANGED <<approvalVars, runVars>>

NextFind ==
  \/ FindLatest
  \/ SaveReport

SpecFind == InitFind /\ [][NextFind]_vars

\* ------------------------------- runs over a directory that has a report
\* What a report file found in the directory may hold: nothing, headings
\* only, or a heading and a paragraph.
PriorContents ==
  {<<>>,
   <<Line("# Intelligence Report: ", 0, ""), Blank, T("## Executive Summary")>>,
   <<Line("# Intelligence Report: ", 0, ""), Blank, T("A")>>}

\* The reports directory with one report of day 1 in it.
PriorStores ==
  {[exists |-> TRUE, files |-> [f \in {FileName(1, ReportSuffix)} |-> c]] :
     c \in PriorContents}

\* CompetitorMonitor.__init__ over such a directory, the configuration one
\* entity.
InitBaseline ==
  /\ ah = NewHandler
  /\ now = 0
  /\ lastOp = NoOp
  /\ today = 1
  /\ config \in {c \in Configs : c.file = "ok" /\ Len(c.competitors) = 1}
  /\ pc = "idle"
  /\ idx = 1
  /\ cur = NoCur
  /\ results = <<>>
  /\ errors = <<>>
  /\ ledger = <<>>
  /\ ledgerBase = 0
  /\ gateLog = <<>>
  /\ report = <<>>
  /\ store \in PriorStores
  /\ runs = 0
  /\ query = NoQuery
  /\ wrote = "none"
  /\ diff = NoDiff
  /\ summary = NoSummary

SpecBaseline == InitBaseline /\ [][Next]_vars

\* ------------------------------------------- the differ on its own
\* The cosine similarities, in hundredths: -1.00 .. 1.00.
SimValues == (0 - 100)..100

InitDiffer ==
  /\ ah = NewHandler
  /\ now = 0
  /\ lastOp = NoOp
  /\ today = 1
  /\ config = NoConfig
  /\ pc = "idle"
  /\ idx = 1
  /\ cur = NoCur
  /\ results = <<>>
  /\ errors = <<>>
  /\ ledger = <<>>
  /\ ledgerBase = 0
  /\ gateLog = <<>>
  /\ report = <<>>
  /\ store = EmptyStore
  /\ runs = 0
  /\ query = NoQuery
  /\ wrote = "none"
  /\ diff = NoDiff
  /\ summary = NoSummary

\* A call calculate_similarity(text1, text2) on texts whose embeddings have
\* the cosine similarity `similarity'.
CalculateSimilarity ==
  /\ \E similarity \in SimValues :
       diff' = [similarity |-> similarity, called |-> TRUE,
                result |-> calculate_similarity(similarity)]
  /\ UNCHANGED <<ah, now, lastOp, today, config, pc, idx, cur, results,
                 errors, ledger, ledgerBase, gateLog, report, store, runs,
                 query, wrote, summary>>

NextDiffer == CalculateSimilarity

SpecDiffer == InitDiffer /\ [][NextDiffer]_vars

\* --------------------------------- the report generator on its own
\* The results process_competitor can return for an entity analysed on day 1.
ResultsOf(name, url) ==
  LET result == NewResult(name, url, 1) IN
  {[result EXCEPT !.findings = T("URL browsing not approved")],
   [result EXCEPT !.findings = T("Failed to extract text")],
   error_result(result),
   new_competitor_result(result)}
  \cup {diffed_result(result, calculate_similarity(similarity), 1) :
          similarity \in Sims \cup {100}}

\* The results lists of up to MaxEntities entities.
ResultLists ==
  UNION {{rs \in [1..n -> UNION {ResultsOf(Names[i], Urls[i]) : i \in 1..n}] :
            \A i \in 1..n : rs[i].competitor_name = Names[i]} :
         n \in 0..MaxEntities}

RECURSIVE errors_of(_)
\* The errors list run_workflow builds for a results list.
errors_of(rs) ==
  IF rs = <<>> THEN <<>>
  ELSE collect_errors(errors_of(SubSeq(rs, 1, Len(rs) - 1)), rs[Len(rs)])

InitReport ==
  /\ ah = NewHandler
  /\ now = 0
  /\ lastOp = NoOp
  /\ today = 1
  /\ config = NoConfig
  /\ pc = "idle"
  /\ idx = 1
  /\ cur = NoCur
  /\ results \in ResultLists
  /\ errors = errors_of(results)
  /\ ledger = <<>>
  /\ ledgerBase = 0
  /\ gateLog = <<>>
  /\ report = <<>>
  /\ store = EmptyStore
  /\ runs = 0
  /\ query = NoQuery
  /\ wrote = "none"
  /\ diff = NoDiff
  /\ summary = NoSummary

\* A call generate_report(results, errors).
GenerateReport ==
  /\ report' = generate_report(results, errors, today)
  /\ UNCHANGED <<ah, now, lastOp, today, config, pc, idx, cur, results,
                 errors, ledger, ledgerBase, gateLog, store, runs, query,
                 wrote, diff,
                 summary>>

NextReport ==
  \/ GenerateReport
  \/ Midnight

SpecReport == InitReport /\ [][NextReport]_vars

\* ------------------------------------------- the ledger on its own
ErrorTypes == {"configuration", "network", "script", "report"}

InitLedger ==
  /\ ah = NewHandler
  /\ now = 0
  /\ lastOp = NoOp
  /\ today = 1
  /\ config = NoConfig
  /\ pc = "idle"
  /\ idx = 1
  /\ cur = NoCur
  /\ results = <<>>
  /\ errors = <<>>
  /\ ledger = <<>>
  /\ ledgerBase = 0
  /\ gateLog = <<>>
  /\ report = <<>>
  /\ store = EmptyStore
  /\ runs = 0
  /\ query = NoQuery
  /\ wrote = "none"
  /\ diff = NoDiff
  /\ summary = NoSummary

\* A call of log_configuration_error, log_network_error, log_script_error or
\* log_report_error.
LogError ==
  /\ Len(ledger) < MaxErrors
  /\ \E error_type \in ErrorTypes, competitor_name \in {Names[1], Names[2]} :
       /\ ledger' =
            IF error_type = "configuration"
            THEN log_configuration_error(ledger, "message")
            ELSE IF error_type = "network"
            THEN log_network_error(ledger, "message", competitor_name)
            ELSE IF error_type = "script"
            THEN log_script_error(ledger, "message", competitor_name)
            ELSE log_report_error(ledger, "message")
       /\ lastOp' = [op |-> "log_error", req |-> 0, ret |-> 0,
                     status |-> error_type]
  /\ UNCHANGED <<ah, now, today, config, pc, idx, cur, results, errors,
                 ledgerBase, gateLog, report, store, runs, query, wrote,
                 diff, summary>>

\* A call of clear_errors.
ClearErrors ==
  /\ ledger' = clear_errors(ledger)
  /\ lastOp' = [op |-> "clear_errors", req |-> 0, ret |-> 0,
                status |-> "none"]
  /\ UNCHANGED <<ah, now, today, config, pc, idx, cur, results, errors,
                 ledgerBase, gateLog, report, store, runs, query, wrote,
                 diff, summary>>

\* A call of save_error_summary: the summary is written, or the write raises
\* and None is returned.
SaveErrorSummary ==
  /\ \/ /\ summary' = get_error_summary(ledger)
        /\ lastOp' = [op |-> "save_error_summary", req |-> 0, ret |-> 1,
                      status |-> "none"]
     \/ /\ summary' = summary
        /\ lastOp' = [op |-> "save_error_summary", req |-> 0, ret |-> 0,
                      status |-> "none"]
  /\ UNCHANGED <<ah, now, today, config, pc, idx, cur, results, errors,
                 ledger, ledgerBase, gateLog, report, store, runs, query,
                 wrote, diff>>

NextLedger ==
  \/ LogError
  \/ ClearErrors
  \/ SaveErrorSummary

SpecLedger == InitLedger /\ [][NextLedger]_vars

\* ============================================================== claims

\* One step of the handler, as seen by a request that is no longer pending:
\* the request keeps every field, a status only leaves pending, and a
\* resolve call on a request already resolved returns False (0) and changes
\* nothing in the handler.
C1_ResolvedStep ==
  /\ \A r \in 1..Len(ah.reqs) :
       /\ ah.reqs[r].status # "pending" => ah'.reqs[r] = ah.reqs[r]
       /\ ah'.reqs[r].status # ah.reqs[r].status =>
            /\ ah.reqs[r].status = "pending"
            /\ ah'.reqs[r].status \in {"approved", "rejected", "expired"}
  /\ (/\ lastOp'.op \in {"approve", "reject"}
      /\ ah.reqs[lastOp'.req].status # "pending")
     => (lastOp'.ret = 0 /\ ah' = ah)

\* C1: a request's status changes only from pending, to approved, rejected
\* or expired, and a request that is no longer pending never changes again;
\* approve_request or reject_request on a request that is approved, rejected
\* or expired returns False and leaves the request and the three lists as
\* they were.
C1_TerminalImmutable == [][C1_ResolvedStep]_vars

\* A resolve call on an expired request has returned False.
C1_Witness ==
  /\ lastOp.op \in {"approve", "reject"}
  /\ lastOp.ret = 0
  /\ ah.reqs[lastOp.req].status = "expired"

\* The files of the directory itself that match the pattern, carry a real date and
\* are dated strictly before the date asked for.
C10_Candidates ==
  {f \in DOMAIN store.files :
     /\ f.dir = <<>>
     /\ f.suffix = ReportSuffix
     /\ f.stamp >= 1
     /\ f.stamp * DayTicks < query.before}

\* C10: find_latest_report(d) returns the report file with the largest date
\* strictly before d among the files that match the pattern and carry a real
\* date, and none when the directory is missing or no file qualifies.
C10_LatestBefore ==
  query.before # None =>
    IF ~store.exists \/ C10_Candidates = {}
    THEN query.found = NoFile
    ELSE /\ query.found \in C10_Candidates
         /\ \A g \in C10_Candidates : g.stamp <= query.found.stamp

\* A query that had to choose among several qualifying files while others
\* did not qualify.
C10_Witness ==
  /\ query.before # None
  /\ Cardinality(C10_Candidates) >= 2
  /\ \E f \in DOMAIN store.files : f \notin C10_Candidates
  /\ query.found # NoFile

\* ----------------------------------------------------- about the runs
N == Len(config.competitors)
\* The records the ledger got since the run started.
RunLedger == SubSeq(ledger, ledgerBase + 1, Len(ledger))
\* The entities of the current run that went through the approval check.
RunGates == {k \in 1..Len(gateLog) : gateLog[k].run = runs}
InRun == pc \in {"loop", "fetching", "save"}

FetchFailed(result) == result.findings.s = "Failed to extract text"
Raised(result) == result.findings.s = "Error: "
NotApproved(result) == result.findings.s = "URL browsing not approved"
Failed(result) == FetchFailed(result) \/ Raised(result)

\* C2: the fetch is invoked only for an entity whose URL approval request is
\* approved when process_competitor checks it; an entity whose request is not
\* approved then gets the not-approved result, no ledger record, and the loop
\* goes on to the next entity.
C2_FetchOnlyApproved ==
  /\ \A k \in 1..Len(gateLog) :
       /\ gateLog[k].fetched => gateLog[k].status = "approved"
       /\ gateLog[k].status # "approved" => ~gateLog[k].fetched
  /\ pc = "fetching" => ah.reqs[cur.req].status = "approved"
  /\ InRun =>
       \A k \in RunGates :
         gateLog[k].status # "approved" =>
           /\ Len(results) >= gateLog[k].idx
           /\ NotApproved(results[gateLog[k].idx])
           /\ get_errors_by_competitor(RunLedger, gateLog[k].name) = <<>>
           /\ pc = "loop" => idx = Len(results) + 1

\* The fetch of the second entity is under way, its request approved.
C2_Witness ==
  /\ pc = "fetching"
  /\ idx = 2
  /\ gateLog[Len(gateLog)].fetched
  /\ ah.reqs[cur.req].status = "approved"
  /\ ah.reqs[cur.req].approver = "test"

\* The section headings of a report, in order.
SectionNames(text) ==
  LET heads == SelectSeq(text, LAMBDA l : l.s = "## Competitor: ")
  IN [i \in 1..Len(heads) |-> heads[i].e]

\* C3: whatever the entities' outcomes, the report generator is handed
\* exactly N results, the i-th for the i-th configured entity, and the report
\* has their N sections in that order.
C3_AllResultsInOrder ==
  pc = "save" =>
    /\ Len(results) = N
    /\ \A i \in 1..N :
         /\ results[i].competitor_name = config.competitors[i].name
         /\ results[i].url = config.competitors[i].url
    /\ SectionNames(report) = [i \in 1..N |-> config.competitors[i].name]

\* A report of two entities, the first failed and the second classified.
C3_Witness ==
  /\ pc = "save"
  /\ N = 2
  /\ Failed(results[1])
  /\ ~Failed(results[2])

\* C4: no failure while processing an entity leaves run_workflow: a run over
\* a loaded configuration never ends in an uncaught exception, and each
\* entity that raised has exactly one record of kind script, under its name.
C4_FailuresCaught ==
  /\ config.file = "ok" => pc # "crashed"
  /\ InRun =>
       \A i \in 1..Len(results) :
         Raised(results[i]) =>
           Len(get_errors_by_competitor(
                 get_errors_by_type(RunLedger, "script"),
                 results[i].competitor_name)) = 1

\* C5: during the entity loop, each entity whose fetch returned nothing has
\* exactly one network record under its name, the entities that succeeded or
\* were not approved have none, the loop goes on after a failure, and the
\* records of the run are as many as its failed entities.
C5_OneRecordPerFailure ==
  InRun =>
    /\ \A i \in 1..Len(results) :
         LET mine == get_errors_by_competitor(RunLedger,
                                              results[i].competitor_name)
         IN /\ FetchFailed(results[i]) =>
                 /\ Len(mine) = 1
                 /\ mine[1].error_type = "network"
            /\ ~Failed(results[i]) => mine = <<>>
    /\ Len(RunLedger) =
         Cardinality({i \in 1..Len(results) : Failed(results[i])})
    /\ pc = "loop" => idx = Len(results) + 1
    /\ pc = "save" => Len(results) = N

\* The loop is over; the first entity's fetch returned nothing and the
\* second entity was classified.
C5_Witness ==
  /\ pc = "save"
  /\ N = 2
  /\ FetchFailed(results[1])
  /\ results[2].shift_classification # Absent

\* The entries of a report's error section.
ErrorEntries(text) ==
  SelectSeq(text, LAMBDA l : l.s = "- **{competitor_name}**: {error_message}")

\* C6: the error section of the compiled report has an entry for every record
\* the ledger got during the run, naming the record's entity.
C6_ReportListsLedger ==
  pc = "save" =>
    \A k \in 1..Len(RunLedger) :
      \E j \in 1..Len(ErrorEntries(report)) :
        ErrorEntries(report)[j].e = RunLedger[k].competitor_name

\* C7: with no usable entity list (no file, invalid JSON, or JSON without a
\* non-empty competitors list) a run processes no entity, adds exactly one
\* configuration record to the ledger and returns a report without entities.
C7_ConfigurationFailure ==
  (config.file # "ok" /\ runs >= 1) =>
    /\ pc = "done"
    /\ RunGates = {}
    /\ results = <<>>
    /\ SectionNames(report) = <<>>
    /\ Len(RunLedger) = 1
    /\ RunLedger[1].error_type = "configuration"

\* C8: when the second of two runs over one entity, made on a later date,
\* fetches the text the first run fetched and finds the first run's report as
\* its baseline, the baseline text is that text and the entity is classified
\* minor_update with 100 percent.
C8_BaselineIsOwnContent ==
  (InRun /\ N = 1 /\ runs = 2) =>
    \A k, j \in 1..Len(gateLog) :
      (/\ gateLog[j].run = 1 /\ gateLog[k].run = 2
       /\ gateLog[k].text # NoText
       /\ gateLog[j].text = gateLog[k].text
       /\ gateLog[k].baseline # NoFile
       /\ Len(results) = 1 /\ ~Failed(results[1])
       /\ gateLog[k].baseline.stamp < results[1].analysis_date)
      => /\ gateLog[k].baseline_text = gateLog[k].text
         /\ results[1].shift_classification = "minor_update"
         /\ results[1].similarity_percentage = 10000

\* C9: the baseline of an entity is dated before the date of its analysis.
C9_BaselineBeforeRunDate ==
  \A i \in 1..Len(results) :
    results[i].baseline_date \notin {None, NA} =>
      results[i].baseline_date < results[i].analysis_date

\* ------------------------------------------------ about the store
\* The file save_report writes for the last save.
SavedPath ==
  [dir |-> replace(query.saved.competitor_name),
   stamp |-> query.saved.date \div DayTicks,
   suffix |-> ReportSuffix]

\* The report files, of the directories in `dirs', dated after the last save
\* and before the date asked for.
Between(dirs) ==
  {f \in DOMAIN store.files :
     /\ f.dir \in dirs
     /\ f.suffix = ReportSuffix
     /\ f.stamp >= 1
     /\ f.stamp * DayTicks > query.saved.date
     /\ f.stamp * DayTicks < query.before}

\* C11: content saved under date D is the content read back from the file
\* find_latest_report(D') returns, for every D' > D, when the directory has
\* no report dated between D and D'.
C11_RoundTrip ==
  (/\ query.before # None
   /\ query.saved.ok
   /\ query.saved.competitor_name = <<>>
   /\ query.before > query.saved.date
   /\ Between({<<>>}) = {})
  => /\ query.found = SavedPath
     /\ query.read = query.saved.content

\* Content B was saved over or beside older reports and a later query read
\* it back.
C11_Witness ==
  /\ query.before # None
  /\ query.saved.ok
  /\ query.saved.competitor_name = <<>>
  /\ query.saved.content = <<T("B")>>
  /\ query.found = SavedPath
  /\ query.read = <<T("B")>>
  /\ \E f \in DOMAIN store.files :
       f.dir = <<>> /\ f.suffix = ReportSuffix /\ f.stamp >= 1
       /\ f.stamp < SavedPath.stamp

\* C12: a report saved with a competitor name is what a later
\* find_latest_report returns, for a date after its date, when no report of
\* any directory is dated in between.
C12_ScopedRoundTrip ==
  (/\ query.before # None
   /\ query.saved.ok
   /\ query.saved.competitor_name # <<>>
   /\ query.before > query.saved.date
   /\ Between({<<>>} \cup {replace(c) : c \in Scopes}) = {})
  => /\ query.found = SavedPath
     /\ query.read = query.saved.content

\* The file save_report has written in this step.
SavedPathNext ==
  [dir |-> replace(query'.saved.competitor_name),
   stamp |-> query'.saved.date \div DayTicks,
   suffix |-> ReportSuffix]

\* A save_report call that returned a path: the directory exists, the file of
\* that competitor and day holds the content written, every other file is as
\* it was, no other file appeared, and the same save once more changes
\* nothing.
C18_SaveStep ==
  (query'.before = None /\ query'.saved.ok) =>
    /\ store'.exists
    /\ DOMAIN store'.files = DOMAIN store.files \cup {SavedPathNext}
    /\ store'.files[SavedPathNext] = query'.saved.content
    /\ \A f \in DOMAIN store.files \ {SavedPathNext} :
         store'.files[f] = store.files[f]
    /\ write_file(store', SavedPathNext, query'.saved.content) = store'

\* C18: saving overwrites by date: after a save the store has one file for
\* that competitor and day, holding the content of the last save, the files
\* of other days are unchanged, and saving the same content for the same day
\* again leaves the store as it is.
C18_IdempotentOverwrite == [][C18_SaveStep]_vars

\* The last save wrote A at a time of day after midnight, while another file
\* holds B from an earlier save.
C18_Witness ==
  /\ query.before = None
  /\ query.saved.ok
  /\ query.saved.date % DayTicks # 0
  /\ query.saved.content = <<T("A")>>
  /\ store.files[SavedPath] = <<T("A")>>
  /\ \E f \in DOMAIN store.files : store.files[f] = <<T("B")>>

\* ------------------------------------------- about the classification
\* The entities of the current run whose fetch returned a text and whose
\* processing went through to a result.
Classified ==
  {k \in RunGates :
     /\ gateLog[k].text # NoText
     /\ Len(results) >= gateLog[k].idx
     /\ ~Raised(results[gateLog[k].idx])}

\* C13: an entity fetched successfully is classified new_competitor exactly
\* when find_latest_report gave no report; with a report, its baseline text
\* is compared with the fetched text, also when that baseline text is empty,
\* and without a report nothing is compared.
C13_NewEntityIffNoBaseline ==
  InRun =>
    \A k \in Classified :
      /\ results[gateLog[k].idx].shift_classification = "new_competitor"
           <=> gateLog[k].baseline = NoFile
      /\ gateLog[k].compared <=> gateLog[k].baseline # NoFile

\* ------------------------------------------------- about the expiry
\* The requests that are pending and whose timeout has elapsed, and those
\* that are pending and whose timeout has not.
TimedOut ==
  {r \in 1..Len(ah.reqs) :
     /\ ah.reqs[r].status = "pending"
     /\ now - ah.reqs[r].requested_at > ah.reqs[r].timeout_seconds}
Live ==
  {r \in 1..Len(ah.reqs) :
     /\ ah.reqs[r].status = "pending"
     /\ ~(now - ah.reqs[r].requested_at > ah.reqs[r].timeout_seconds)}

\* A get_pending_request call: every pending request whose timeout has
\* elapsed has status expired after it, is out of the pending list and is not
\* what the call returns; what the call returns is pending and not timed out.
C14_SweepStep ==
  lastOp'.op = "get_pending" =>
    /\ \A r \in TimedOut :
         /\ ah'.reqs[r].status = "expired"
         /\ ~InList(ah'.pending, r)
         /\ lastOp'.ret # r
    /\ lastOp'.ret # 0 =>
         /\ ah'.reqs[lastOp'.ret].status = "pending"
         /\ lastOp'.ret \notin TimedOut

\* C14: a pending request whose elapsed time exceeds its timeout is expired
\* by the next get_pending_request call, leaves the pending list, and is not
\* returned by that call or by a later one.
C14_ExpiredOnNextAccess == [][C14_SweepStep]_vars

\* A get_pending_request call has expired the first request and returned the
\* second.
C14_Witness ==
  /\ lastOp.op = "get_pending"
  /\ lastOp.ret = 2
  /\ ah.reqs[1].status = "expired"
  /\ ~InList(ah.pending, 1)

\* C15: get_approval_status of a request whose timeout has elapsed, and that
\* was neither approved nor rejected, reports expired.
C15_StatusReadExpired ==
  (/\ lastOp.op = "get_status"
   /\ ah.reqs[lastOp.req].status \in {"pending", "expired"}
   /\ now - ah.reqs[lastOp.req].requested_at
        > ah.reqs[lastOp.req].timeout_seconds)
  => lastOp.status = "expired"

\* The least element of a non-empty set of numbers.
Least(S) == CHOOSE x \in S : \A y \in S : x <= y

\* A get_pending_request call returns the request created first among those
\* pending and not timed out, None (0) exactly when there is none, and leaves
\* those requests in the pending list in the order they had.
C16_OldestStep ==
  lastOp'.op = "get_pending" =>
    /\ lastOp'.ret = 0 <=> Live = {}
    /\ Live # {} =>
         /\ lastOp'.ret = Least(Live)
         /\ \A q \in Live : ah.reqs[lastOp'.ret].requested_at
                                <= ah.reqs[q].requested_at
    /\ ah'.pending = SelectSeq(ah.pending, LAMBDA r : r \in Live)

\* C16: get_pending_request returns the oldest request among those still
\* pending and not timed out, none exactly when there is no such request,
\* and the requests that are not expired keep their order in the list.
C16_OldestPending == [][C16_OldestStep]_vars

\* A get_pending_request call has returned the older of two live requests.
C16_Witness ==
  /\ lastOp.op = "get_pending"
  /\ Len(ah.pending) = 2
  /\ lastOp.ret = ah.pending[1]
  /\ ah.reqs[1].requested_at < ah.reqs[2].requested_at

\* ------------------------------------------------- about the saving
\* The step in which the write of the report fails: one record of type
\* report is added to the ledger and nothing else, the report in memory is
\* as generate_report made it, and run_workflow returns.
C17_FailedSaveStep ==
  (pc = "save" /\ wrote' = "failed") =>
    /\ Len(ledger') = Len(ledger) + 1
    /\ SubSeq(ledger', 1, Len(ledger)) = ledger
    /\ ledger'[Len(ledger')].error_type = "report"
    /\ report' = report
    /\ pc' = "done"
    /\ store' = store

\* C17: when the write of the compiled report fails, run_workflow adds exactly
\* one record of type report to the ledger and still returns the report it
\* compiled; the failure does not leave run_workflow.
C17_SaveFailureLogged == [][C17_FailedSaveStep]_vars

\* A run of two entities has returned its report although the write failed.
C17_Witness ==
  /\ pc = "done"
  /\ wrote = "failed"
  /\ N = 2
  /\ Len(SectionNames(report)) = 2
  /\ Len(get_errors_by_type(RunLedger, "report")) = 1

\* ------------------------------------------------ about the differ
\* C19: for a cosine similarity s, in hundredths, calculate_similarity gives
\* the percentage (s + 1) / 2 * 100, which is within 0..100, 100 for s = 1,
\* 50 for s = 0 and 0 for s = -1, and flags a strategic shift exactly when
\* s < 0.80, which for some s differs from percentage < 80.  Percentages are
\* in hundredths of a percent.
C19_PercentageAndThreshold ==
  diff.called =>
    LET s == diff.similarity
        r == diff.result
    IN /\ 2 * r.similarity_percentage = (s + 100) * 100
       /\ r.similarity_percentage >= 0
       /\ r.similarity_percentage <= 10000
       /\ s = 100 => r.similarity_percentage = 10000
       /\ s = 0 => r.similarity_percentage = 5000
       /\ s = 0 - 100 => r.similarity_percentage = 0
       /\ r.is_strategic_shift <=> s < 80
       /\ r.shift_classification = "Strategic_Shift" <=> s < 80
       /\ r.shift_classification = "minor_update" <=> s >= 80
       /\ \E t \in SimValues :
            (t < 80) # (calculate_similarity(t).similarity_percentage < 8000)

\* A similarity of 0.70: a strategic shift, at 85 percent.
C19_Witness ==
  /\ diff.called
  /\ diff.similarity = 70
  /\ diff.result.is_strategic_shift
  /\ diff.result.similarity_percentage = 8500

\* --------------------------------------------- about new competitors
\* The lines of a report from the heading of the section of `name' up to the
\* next heading of that level.
SectionOf(text, name) ==
  LET heads == {i \in 1..Len(text) :
                  text[i].s = "## Competitor: " /\ text[i].e = name}
      first == Least(heads)
      stops == {i \in (first + 1)..Len(text) :
                  text[i].s \in {"## Competitor: ", "## Error Summary"}}
  IN IF heads = {} THEN <<>>
     ELSE SubSeq(text, first, Least(stops \cup {Len(text) + 1}) - 1)

\* Whether a text has the strategic-shift block, and whether the
\* recommendations of a report list `name'.
Highlighted(text) ==
  \E i \in 1..Len(text) : text[i].s = "> **STRATEGIC SHIFT DETECTED**"
Recommended(text, name) ==
  \E i \in 1..Len(text) :
    text[i].s = "   - {name}: No details available" /\ text[i].e = name

\* C20: an entity fetched when there is no historical text gets the
\* classification new_competitor, similarity percentage 0 and no
\* strategic-shift flag, whatever was fetched; in the report its section has
\* no strategic-shift block and the recommendations do not list it.
C20_NewEntityNeverDrift ==
  /\ InRun =>
       \A k \in Classified :
         ~truthy(gateLog[k].baseline_text) =>
           LET result == results[gateLog[k].idx] IN
           /\ result.shift_classification = "new_competitor"
           /\ result.similarity_percentage = 0
           /\ result.is_strategic_shift = FALSE
  /\ pc = "save" =>
       \A i \in 1..Len(results) :
         results[i].shift_classification = "new_competitor" =>
           /\ SectionOf(report, results[i].competitor_name) # <<>>
           /\ ~Highlighted(SectionOf(report, results[i].competitor_name))
           /\ ~Recommended(report, results[i].competitor_name)

\* A report of two new competitors whose fetched texts differ.
C20_Witness ==
  /\ pc = "save"
  /\ N = 2
  /\ results[1].shift_classification = "new_competitor"
  /\ results[2].shift_classification = "new_competitor"
  /\ \E k, j \in RunGates :
       /\ gateLog[k].idx = 1 /\ gateLog[j].idx = 2
       /\ gateLog[k].text = <<T("A")>> /\ gateLog[j].text = <<T("B")>>
  /\ Len(SectionOf(report, results[1].competitor_name)) > 1

\* ------------------------------------------------ about the buckets
\* The requests with a given status.
WithStatus(status) == {r \in 1..Len(ah.reqs) : ah.reqs[r].status = status}

\* C24: get_approved_count is the number of requests with status approved
\* and get_rejected_count the number of requests with status rejected;
\* expired requests are not counted as rejected.
C24_CountsByStatus ==
  /\ get_approved_count(ah) = Cardinality(WithStatus("approved"))
  /\ get_rejected_count(ah) = Cardinality(WithStatus("rejected"))

\* How often a request occurs in a list.
Occurrences(list, r) == Cardinality({i \in 1..Len(list) : list[i] = r})

\* C28: every request made through the handler is in exactly one of the
\* three lists, once; the approved list holds requests with status approved,
\* the rejected list requests with status rejected or expired, the pending
\* list requests with status pending.
C28_OneListEach ==
  /\ \A r \in 1..Len(ah.reqs) :
       Occurrences(ah.pending, r) + Occurrences(ah.approved, r)
         + Occurrences(ah.rejected, r) = 1
  /\ \A i \in 1..Len(ah.pending) :
       /\ ah.pending[i] \in 1..Len(ah.reqs)
       /\ ah.reqs[ah.pending[i]].status = "pending"
  /\ \A i \in 1..Len(ah.approved) :
       /\ ah.approved[i] \in 1..Len(ah.reqs)
       /\ ah.reqs[ah.approved[i]].status = "approved"
  /\ \A i \in 1..Len(ah.rejected) :
       /\ ah.rejected[i] \in 1..Len(ah.reqs)
       /\ ah.reqs[ah.rejected[i]].status \in {"rejected", "expired"}

\* Of two requests one was approved and the other has expired: the pending
\* list is empty and the other two lists hold one request each.
C28_Witness ==
  /\ Len(ah.reqs) = 2
  /\ ah.pending = <<>>
  /\ Len(ah.approved) = 1
  /\ Len(ah.rejected) = 1
  /\ ah.reqs[ah.rejected[1]].status = "expired"

\* C29: no request has status approved with an approval time later than
\* requested_at + timeout_seconds.
C29_ApprovedWithinTimeout ==
  \A r \in 1..Len(ah.reqs) :
    ah.reqs[r].status = "approved" =>
      ah.reqs[r].approved_at
        <= ah.reqs[r].requested_at + ah.reqs[r].timeout_seconds

\* ------------------------------------------------ about the report
\* Two calls of generate_report, one after the other, on the same results and
\* errors: the second returns what the first returned.
C21_SameInputsStep ==
  (/\ report # <<>>
   /\ report' # <<>>
   /\ results' = results
   /\ errors' = errors)
  => report' = report

\* C21: generate_report is a function of results and errors alone: calls
\* with equal results and equal errors return the same text whenever they
\* are made.
C21_ReportPure == [][C21_SameInputsStep]_vars

\* ------------------------------------------------ about the ledger
\* The records of `errs' that satisfy `match', in the order they have there:
\* `found' is that list when it is as long as the set of matching positions
\* and its k-th record is the record at the k-th of them.
ExactlyMatching(found, errs, match(_)) ==
  LET at == {i \in 1..Len(errs) : match(errs[i])} IN
  /\ Len(found) = Cardinality(at)
  /\ \A i \in at :
       found[Cardinality({j \in at : j <= i})] = errs[i]

\* A step of the ledger: a log call adds one record of its type at the end
\* and keeps what was there; any call but clear_errors keeps every record in
\* its place; the two filters give exactly the matching records, in order.
C22_LedgerStep ==
  /\ lastOp'.op = "log_error" =>
       /\ Len(ledger') = Len(ledger) + 1
       /\ ledger'[Len(ledger')].error_type = lastOp'.status
  /\ lastOp'.op # "clear_errors" =>
       /\ Len(ledger') >= Len(ledger)
       /\ SubSeq(ledger', 1, Len(ledger)) = ledger
  /\ \A t \in ErrorTypes :
       ExactlyMatching(get_errors_by_type(ledger', t), ledger',
                       LAMBDA e : e.error_type = t)
  /\ \A c \in {Names[1], Names[2], "N/A"} :
       ExactlyMatching(get_errors_by_competitor(ledger', c), ledger',
                       LAMBDA e : e.competitor_name = c)

\* C22: the ledger is append-only: every log call appends exactly one record
\* at the end and leaves the earlier records and their order as they were,
\* only clear_errors removes records, and get_errors_by_type and
\* get_errors_by_competitor return exactly the matching records in
\* insertion order.
C22_AppendOnly == [][C22_LedgerStep]_vars

\* A third record was logged after two of other types, for two competitors.
C22_Witness ==
  /\ lastOp.op = "log_error"
  /\ Len(ledger) = 3
  /\ ledger[1].error_type = "network"
  /\ ledger[2].error_type = "script"
  /\ ledger[3].error_type = "network"
  /\ ledger[1].competitor_name # ledger[3].competitor_name

\* C23: when a run has processed all its entities and returned, the
\* error summary file holds the total and the counts by type and by
\* competitor of the ledger as it is then, and the report is in the reports
\* directory.
C23_SummaryPersisted ==
  (pc = "done" /\ wrote = "ok") =>
    /\ summary = get_error_summary(ledger)
    /\ \E f \in DOMAIN store.files : store.files[f] = report

\* ---------------------------------------------- about a run's steps
\* C25: within a run each entity is processed once: it has one entry at the
\* approval check, one approval request of its own, and so at most one
\* fetch; an entity whose fetch or classification failed is not taken up
\* again, and at the end of the loop every configured entity has been
\* processed exactly once.
C25_NoRetries ==
  /\ \A k, j \in RunGates : gateLog[k].idx = gateLog[j].idx => k = j
  /\ \A k, j \in 1..Len(gateLog) : gateLog[k].req = gateLog[j].req => k = j
  /\ Len(ah.reqs) = Len(gateLog)
  /\ InRun =>
       {gateLog[k].idx : k \in RunGates}
         = 1..(Len(results) + (IF pc = "fetching" THEN 1 ELSE 0))
  /\ pc = "save" => Cardinality(RunGates) = N

\* A run of two entities is through its loop: the fetch of the first
\* returned nothing and the processing of the second raised.
C25_Witness ==
  /\ pc = "save"
  /\ N = 2
  /\ FetchFailed(results[1])
  /\ Raised(results[2])
  /\ Cardinality(RunGates) = 2

\* A result that is fully classified.
FullyClassified(result) ==
  /\ result.similarity_percentage # None
  /\ result.shift_classification # Absent
  /\ result.baseline_date # None

\* C26: every result handed to the report is not-approved, failed, or fully
\* classified; none keeps the findings 'Processing...', and an entity whose
\* fetch returned a text is classified or marked failed.
C26_TerminalResults ==
  pc = "save" =>
    /\ \A i \in 1..Len(results) :
         /\ results[i].findings.s # "Processing..."
         /\ \/ NotApproved(results[i])
            \/ Failed(results[i])
            \/ FullyClassified(results[i])
    /\ \A k \in RunGates :
         gateLog[k].text # NoText =>
           \/ Raised(results[gateLog[k].idx])
           \/ FullyClassified(results[gateLog[k].idx])

\* A report is due for two entities: the first was compared with a baseline
\* and the processing of the second raised after its text was fetched.
C26_Witness ==
  /\ pc = "save"
  /\ N = 2
  /\ results[1].shift_classification = "minor_update"
  /\ Raised(results[2])
  /\ \E k \in RunGates : gateLog[k].idx = 2 /\ gateLog[k].text # NoText

\* C27: the strategic-shift block is in an entity's section exactly when its
\* result is classified Strategic_Shift; the recommendations list exactly
\* those entities by name when there is one, and have the statement to
\* continue regular monitoring otherwise.
C27_HighlightIffDrift ==
  pc = "save" =>
    LET drift == {i \in 1..Len(results) :
                    results[i].shift_classification = "Strategic_Shift"}
        continue ==
          \E l \in 1..Len(report) :
            report[l].s = "1. No immediate strategic shifts detected. Continue regular monitoring."
    IN /\ \A i \in 1..Len(results) :
            /\ Highlighted(SectionOf(report, results[i].competitor_name))
                 <=> i \in drift
            /\ Recommended(report, results[i].competitor_name)
                 <=> i \in drift
       /\ continue <=> drift = {}

\* A report of two entities, the first a strategic shift and the second a
\* minor update.
C27_Witness ==
  /\ pc = "save"
  /\ N = 2
  /\ results[1].shift_classification = "Strategic_Shift"
  /\ results[2].shift_classification = "minor_update"
  /\ Highlighted(report)

\* C30: the date in the title of the report, the analysis date of every
\* result and the date in the name of the file the report is written to are
\* one and the same.
C30_OneRunDate ==
  /\ pc = "save" =>
       \A i \in 1..Len(results) : results[i].analysis_date = report[1].n
  /\ (pc = "done" /\ wrote = "ok") =>
       /\ \A i \in 1..Len(results) : results[i].analysis_date = report[1].n
       /\ FileName(report[1].n, ReportSuffix) \in DOMAIN store.files
       /\ store.files[FileName(report[1].n, ReportSuffix)] = report

====
